---- MODULE Spec2Model ----
(***************************************************************************)
(* A model of the esp_syslog crate (src/src/lib.rs): the Logger            *)
(* dispatcher, the LoggerBackend transport (Udp datagrams, Tcp behind a    *)
(* BufWriter), the BasicLogger facade adapter (Arc<Mutex<Logger>>) and the *)
(* init_udp / init_tcp setup routines.  format.rs and facility.rs are not  *)
(* part of the available source; the formatter is modelled from the        *)
(* written specification.                                                  *)
(***************************************************************************)
EXTENDS Integers, Sequences, FiniteSets

VARIABLES
    formatter,   \* Logger.formatter: [facility, hostname]
    backend,     \* Logger.backend: [kind, addr, buf]
    wire,        \* what the peer has received: a sequence of datagrams / socket writes
    calls,       \* direct Logger use: the method calls made so far
    lastFlush,   \* direct Logger use: result of flushing since the last write
    dropped,     \* direct Logger use: the Logger went out of scope
    mutex,       \* BasicLogger.logger's Mutex: [holder, poisoned]
    pc,          \* facade: where each thread is
    call,        \* facade: each thread's current (or last) call
    ncalls,      \* facade: calls begun so far
    registered,  \* log crate's global logger slot: 0, or the init call that set it
    maxLevel,    \* log::max_level() as a number, Off = 0 .. Trace = 5
    staticMax,   \* log::STATIC_MAX_LEVEL of the build
    inits,       \* the init_udp / init_tcp calls made so far
    lastEnabled  \* the last BasicLogger::enabled call

vars == <<formatter, backend, wire, calls, lastFlush, dropped, mutex, pc, call,
          ncalls, registered, maxLevel, staticMax, inits, lastEnabled>>

loggerVars == <<calls, lastFlush, dropped>>
facadeVars == <<mutex, pc, call, ncalls>>
initVars == <<registered, maxLevel, staticMax, inits, lastEnabled>>

----
\* Bounds of the model.
NThreads == 2
MaxFacadeCalls == 3
MaxCalls == 2
MaxPriorityCalls == 1
MaxInitCalls == 3
BufCap == 2

Threads == 1..NThreads
None == "None"

----
\* Facility, Severity, Priority.
NFacilities == 24
Facilities == 0..(NFacilities - 1)
LOG_USER == 1

Methods == {"emerg", "alert", "crit", "err", "warning", "notice", "info", "debug"}

\* LogFormat's per-severity methods: each renders with its fixed severity code.
SeverityOf(m) ==
    CASE m = "emerg" -> 0
      [] m = "alert" -> 1
      [] m = "crit" -> 2
      [] m = "err" -> 3
      [] m = "warning" -> 4
      [] m = "notice" -> 5
      [] m = "info" -> 6
      [] m = "debug" -> 7

\* The combined priority, held in a Priority = u8.
priority(f, s) == (f * 8 + s) % 256

Fallback == "localhost"

\* Formatter3164's rendering: <PRI>timestamp hostname process[pid]: message.
Render3164(fmt, sev, msg) ==
    [pri |-> priority(fmt.facility, sev),
     host |-> IF fmt.hostname = None THEN Fallback ELSE fmt.hostname,
     process |-> "myprogram",
     pid |-> 0,
     text |-> msg]

----
\* LoggerBackend.
UdpBackend(addr) == [kind |-> "Udp", addr |-> addr, buf |-> <<>>]
TcpBackend == [kind |-> "Tcp", addr |-> None, buf |-> <<>>]

\* Before any Logger exists.
NoBackend == [kind |-> None, addr |-> None, buf |-> <<>>]
NoFormatter == [facility |-> -1, hostname |-> None]
NoEnabled == [level |-> None, max |-> 0, result |-> FALSE]

\* A faulty write_fmt: the stream is written through, unbuffered.
WriteFmtUnbuffered(b, w, m, ioOk) ==
    IF ioOk
    THEN [backend |-> b, wire |-> Append(w, <<m>>), res |-> "Ok"]
    ELSE [backend |-> b, wire |-> w, res |-> "Err"]

\* Write::write_fmt for LoggerBackend.  Udp: one send_to of the whole
\* message.  Tcp: BufWriter::write_fmt, which appends to the buffer and
\* first writes the buffer out when the message does not fit.
WriteFmt(b, w, m, ioOk) ==
    IF b.kind = "Udp"
    THEN IF ioOk
         THEN [backend |-> b, wire |-> Append(w, <<m>>), res |-> "Ok"]
         ELSE [backend |-> b, wire |-> w, res |-> "Err"]
    ELSE IF Len(b.buf) + 1 > BufCap
         THEN IF ioOk
              THEN [backend |-> [b EXCEPT !.buf = <<m>>],
                    wire |-> Append(w, b.buf), res |-> "Ok"]
              ELSE [backend |-> b, wire |-> w, res |-> "Err"]
         ELSE [backend |-> [b EXCEPT !.buf = Append(@, m)],
               wire |-> w, res |-> "Ok"]

\* A faulty flush: the Udp arm sends (and can fail) like the Tcp arm.
FlushUdpSends(b, w, ioOk) ==
    IF ioOk
    THEN [backend |-> [b EXCEPT !.buf = <<>>], wire |-> Append(w, b.buf), res |-> "Ok"]
    ELSE [backend |-> b, wire |-> w, res |-> "Err"]

\* Write::flush for LoggerBackend.  Udp: Ok(()).  Tcp: BufWriter::flush,
\* which writes the buffer out (nothing to write when it is empty).
Flush(b, w, ioOk) ==
    IF b.kind = "Udp"
    THEN [backend |-> b, wire |-> w, res |-> "Ok"]
    ELSE IF b.buf = <<>>
         THEN [backend |-> b, wire |-> w, res |-> "Ok"]
         ELSE IF ioOk
              THEN [backend |-> [b EXCEPT !.buf = <<>>],
                    wire |-> Append(w, b.buf), res |-> "Ok"]
              ELSE [backend |-> b, wire |-> w, res |-> "Err"]

\* All the messages the peer was sent, in order.
RECURSIVE Flatten(_)
Flatten(ws) == IF ws = <<>> THEN <<>> ELSE Head(ws) \o Flatten(Tail(ws))

----
\* Logger.

\* A faulty dispatcher: notice forwards to the formatter's info.
LoggerForwardSlip(m) == IF m = "notice" THEN "info" ELSE m

\* Logger::<m> calls self.formatter.<m>(&mut self.backend, message).
LoggerForward(m) == m

\* One Logger method call: render with the method's severity, write the
\* rendering to the backend, return the result.
LoggerCall(m, fmt, b, w, msg, ioOk) ==
    LET rendered == Render3164(fmt, SeverityOf(LoggerForward(m)), msg)
        r == WriteFmt(b, w, rendered, ioOk)
    IN  [backend |-> r.backend, wire |-> r.wire, res |-> r.res, rendered |-> rendered]

----
\* Direct, single-owner use of a Logger (examples/write.rs).
Msgs == {"hello world", "hello all"}
PeerAddr == "127.0.0.1:514"
Hostname == "esp32-mydeviceid"

IdleCall == [op |-> None, level |-> None, ops |-> <<>>, res |-> None, ret |-> None]

FacadeIdle ==
    /\ mutex = [holder |-> 0, poisoned |-> FALSE]
    /\ pc = [t \in Threads |-> "idle"]
    /\ call = [t \in Threads |-> IdleCall]
    /\ ncalls = 0

InitIdle ==
    /\ registered = 0
    /\ maxLevel = 0
    /\ staticMax = 5
    /\ inits = <<>>
    /\ lastEnabled = NoEnabled

LoggerIdle ==
    /\ calls = <<>>
    /\ lastFlush = None
    /\ dropped = FALSE

\* udp(formatter, local, server) / tcp(formatter, server) returned Ok(logger).
InitLoggerWith(F) ==
    /\ formatter \in [facility : F, hostname : {None, Hostname}]
    /\ backend \in {UdpBackend(PeerAddr), TcpBackend}
    /\ wire = <<>>
    /\ LoggerIdle
    /\ FacadeIdle
    /\ InitIdle

\* writer.<m>(msg)
LoggerMethod(m, msg, ioOk) ==
    /\ ~dropped
    /\ Len(calls) < MaxCalls
    /\ LET r == LoggerCall(m, formatter, backend, wire, msg, ioOk)
       IN  /\ backend' = r.backend
           /\ wire' = r.wire
           /\ calls' = Append(calls, [method |-> m, msg |-> msg,
                                      rendered |-> r.rendered, res |-> r.res])
    /\ lastFlush' = None
    /\ UNCHANGED <<formatter, dropped, facadeVars, initVars>>

\* writer.backend.flush()
LoggerFlush(ioOk) ==
    /\ ~dropped
    /\ LET r == Flush(backend, wire, ioOk)
       IN  /\ backend' = r.backend
           /\ wire' = r.wire
           /\ lastFlush' = r.res
    /\ UNCHANGED <<formatter, calls, dropped, facadeVars, initVars>>

\* The Logger goes out of scope: BufWriter's drop writes the buffer out and
\* ignores the outcome; the socket is closed.
LoggerDrop(ioOk) ==
    /\ ~dropped
    /\ LET r == Flush(backend, wire, ioOk)
       IN  /\ backend' = [r.backend EXCEPT !.buf = <<>>]
           /\ wire' = r.wire
           /\ lastFlush' = r.res
    /\ dropped' = TRUE
    /\ UNCHANGED <<formatter, calls, facadeVars, initVars>>

NextLogger ==
    \/ \E m \in Methods, msg \in Msgs, ioOk \in BOOLEAN : LoggerMethod(m, msg, ioOk)
    \/ \E ioOk \in BOOLEAN : LoggerFlush(ioOk)
    \/ \E ioOk \in BOOLEAN : LoggerDrop(ioOk)

ExampleFacilities == {LOG_USER, NFacilities - 1}

InitLogger == InitLoggerWith(ExampleFacilities)

SpecLogger == InitLogger /\ [][NextLogger]_vars

\* Every facility, a bounded number of method calls.
InitPriority == InitLoggerWith(Facilities)

NextPriority ==
    \/ \E m \in Methods, msg \in Msgs, ioOk \in BOOLEAN :
          Len(calls) < MaxPriorityCalls /\ LoggerMethod(m, msg, ioOk)
    \/ \E ioOk \in BOOLEAN : LoggerFlush(ioOk)
    \/ \E ioOk \in BOOLEAN : LoggerDrop(ioOk)

SpecPriority == InitPriority /\ [][NextPriority]_vars

----
\* The facade adapter: BasicLogger = Arc<Mutex<Logger<LoggerBackend, Formatter3164>>>,
\* called from several threads through the log crate.
Levels == {"Error", "Warn", "Info", "Debug", "Trace"}

\* log::Level as usize: Error = 1 .. Trace = 5.
LevelOrd(l) ==
    CASE l = "Error" -> 1
      [] l = "Warn" -> 2
      [] l = "Info" -> 3
      [] l = "Debug" -> 4
      [] l = "Trace" -> 5

\* A faulty level match: Trace falls through to notice.
LevelToMethodSlip(l) ==
    CASE l = "Error" -> "err"
      [] l = "Warn" -> "warning"
      [] l = "Info" -> "info"
      [] l = "Debug" -> "debug"
      [] l = "Trace" -> "notice"

\* match record.level() { .. } in BasicLogger::log.
LevelToMethod(l) ==
    CASE l = "Error" -> "err"
      [] l = "Warn" -> "warning"
      [] l = "Info" -> "info"
      [] l = "Debug" -> "debug"
      [] l = "Trace" -> "debug"

\* A faulty lock: the Logger is reached without waiting for the holder.
CanAcquireUnsync(m) == TRUE

\* Mutex::lock blocks until no thread holds the mutex.
CanAcquire(m) == m.holder = 0

\* A faulty lock().unwrap(): the poison is ignored and the guard used.
LockResultIgnorePoison(m) == "guard"

\* lock().unwrap(): a poisoned mutex gives Err(PoisonError), which unwrap
\* turns into a panic; otherwise the guard.
LockResult(m) == IF m.poisoned THEN "panic" ELSE "guard"

\* A faulty handling of the result: the write result is unwrapped.
FacadeOutcomeUnwrap(res) == IF res = "Err" THEN "panic" ELSE "normal"

\* The Result of the Logger method is dropped (unused_must_use is allowed):
\* log returns normally whatever it was.
FacadeOutcome(res) == "normal"

FacadeMsg == "hello world"

Init ==
    /\ formatter = [facility |-> LOG_USER, hostname |-> Hostname]
    /\ backend \in {UdpBackend(PeerAddr), TcpBackend}
    /\ wire = <<>>
    /\ LoggerIdle
    /\ FacadeIdle
    /\ InitIdle

\* BasicLogger::log, up to the lock: the message is formatted.
LogBegin(t, lvl) ==
    /\ pc[t] = "idle"
    /\ ncalls < MaxFacadeCalls
    /\ pc' = [pc EXCEPT ![t] = "log_wait"]
    /\ call' = [call EXCEPT ![t] = [op |-> "log", level |-> lvl, ops |-> <<>>,
                                    res |-> None, ret |-> None]]
    /\ ncalls' = ncalls + 1
    /\ UNCHANGED <<formatter, backend, wire, loggerVars, mutex, initVars>>

\* let mut logger = self.logger.lock().unwrap();
LogLock(t) ==
    /\ pc[t] = "log_wait"
    /\ CanAcquire(mutex)
    /\ IF LockResult(mutex) = "panic"
       THEN /\ pc' = [pc EXCEPT ![t] = "panicked"]
            /\ call' = [call EXCEPT ![t].ret = "panic"]
            /\ UNCHANGED mutex
       ELSE /\ pc' = [pc EXCEPT ![t] = "log_writing"]
            /\ mutex' = [mutex EXCEPT !.holder = t]
            /\ UNCHANGED call
    /\ UNCHANGED <<formatter, backend, wire, loggerVars, ncalls, initVars>>

\* match record.level() { .. => logger.<method>(message) }; the write ends.
LogWriteEnd(t, ioOk) ==
    /\ pc[t] = "log_writing"
    /\ LET m == LevelToMethod(call[t].level)
           r == LoggerCall(m, formatter, backend, wire, FacadeMsg, ioOk)
       IN  /\ backend' = r.backend
           /\ wire' = r.wire
           /\ IF FacadeOutcome(r.res) = "normal"
              THEN /\ pc' = [pc EXCEPT ![t] = "log_written"]
                   /\ call' = [call EXCEPT ![t].ops = Append(@, m), ![t].res = r.res]
                   /\ UNCHANGED mutex
              ELSE /\ pc' = [pc EXCEPT ![t] = "panicked"]
                   /\ call' = [call EXCEPT ![t].ops = Append(@, m), ![t].res = r.res,
                                           ![t].ret = "panic"]
                   /\ mutex' = [holder |-> 0, poisoned |-> TRUE]
    /\ UNCHANGED <<formatter, loggerVars, ncalls, initVars>>

\* The holder panics inside the Logger method (the formatter fails mid-write):
\* unwinding drops the guard, which poisons and releases the mutex.
WritePanic(t) ==
    /\ pc[t] = "log_writing"
    /\ pc' = [pc EXCEPT ![t] = "panicked"]
    /\ call' = [call EXCEPT ![t].ops = Append(@, LevelToMethod(call[t].level)),
                            ![t].ret = "panic"]
    /\ mutex' = [holder |-> 0, poisoned |-> TRUE]
    /\ UNCHANGED <<formatter, backend, wire, loggerVars, ncalls, initVars>>

\* End of BasicLogger::log: the guard is dropped, the call returns.
LogReturn(t) ==
    /\ pc[t] = "log_written"
    /\ pc' = [pc EXCEPT ![t] = "idle"]
    /\ call' = [call EXCEPT ![t].ret = "normal"]
    /\ mutex' = [mutex EXCEPT !.holder = 0]
    /\ UNCHANGED <<formatter, backend, wire, loggerVars, ncalls, initVars>>

\* BasicLogger::flush is called.
FlushBegin(t) ==
    /\ pc[t] = "idle"
    /\ ncalls < MaxFacadeCalls
    /\ pc' = [pc EXCEPT ![t] = "flush_wait"]
    /\ call' = [call EXCEPT ![t] = [op |-> "flush", level |-> None, ops |-> <<>>,
                                    res |-> None, ret |-> None]]
    /\ ncalls' = ncalls + 1
    /\ UNCHANGED <<formatter, backend, wire, loggerVars, mutex, initVars>>

\* self.logger.lock().unwrap() in BasicLogger::flush
FlushLock(t) ==
    /\ pc[t] = "flush_wait"
    /\ CanAcquire(mutex)
    /\ IF LockResult(mutex) = "panic"
       THEN /\ pc' = [pc EXCEPT ![t] = "panicked"]
            /\ call' = [call EXCEPT ![t].ret = "panic"]
            /\ UNCHANGED mutex
       ELSE /\ pc' = [pc EXCEPT ![t] = "flushing"]
            /\ mutex' = [mutex EXCEPT !.holder = t]
            /\ UNCHANGED call
    /\ UNCHANGED <<formatter, backend, wire, loggerVars, ncalls, initVars>>

\* let _ = <guard>.backend.flush(); the guard is dropped with the statement.
FlushEnd(t, ioOk) ==
    /\ pc[t] = "flushing"
    /\ LET r == Flush(backend, wire, ioOk)
       IN  /\ backend' = r.backend
           /\ wire' = r.wire
           /\ call' = [call EXCEPT ![t].ops = Append(@, "flush"), ![t].res = r.res,
                                   ![t].ret = "normal"]
    /\ pc' = [pc EXCEPT ![t] = "idle"]
    /\ mutex' = [mutex EXCEPT !.holder = 0]
    /\ UNCHANGED <<formatter, loggerVars, ncalls, initVars>>

Next ==
    \/ \E t \in Threads, lvl \in Levels : LogBegin(t, lvl)
    \/ \E t \in Threads : LogLock(t)
    \/ \E t \in Threads, ioOk \in BOOLEAN : LogWriteEnd(t, ioOk)
    \/ \E t \in Threads : WritePanic(t)
    \/ \E t \in Threads : LogReturn(t)
    \/ \E t \in Threads : FlushBegin(t)
    \/ \E t \in Threads : FlushLock(t)
    \/ \E t \in Threads, ioOk \in BOOLEAN : FlushEnd(t, ioOk)

Spec == Init /\ [][Next]_vars

----
\* Setup: init_udp / init_tcp register a BasicLogger with the log crate, and
\* BasicLogger::enabled answers against log::max_level().
LevelFilters == 0..5

\* udp(): the server address must resolve to at least one address and the
\* local socket must bind; each failure is chained to ErrorKind::Initialization.
udp(resolve, bind) ==
    IF resolve = "fail" THEN "Err(Initialization)"
    ELSE IF resolve = "empty" THEN "Err(Initialization)"
    ELSE IF ~bind THEN "Err(Initialization)"
    ELSE "Ok"

\* tcp(): TcpStream::connect, a failure chained to ErrorKind::Initialization.
tcp(connect) == IF connect THEN "Ok" ELSE "Err(Initialization)"

\* Result::unwrap
Unwrap(r) == IF r = "Ok" THEN "value" ELSE "panic"

\* log::set_logger(..).chain_err(|| ErrorKind::Initialization): the slot can
\* be set once.
set_logger(reg) == IF reg = 0 THEN "Ok" ELSE "Err(Initialization)"

\* A faulty enabled: a strict comparison against the maximum.
enabledStrict(l, max, smax) == LevelOrd(l) < max /\ LevelOrd(l) <= smax

\* BasicLogger::enabled
enabled(l, max, smax) == LevelOrd(l) <= max /\ LevelOrd(l) <= smax

\* What went wrong for the transport, if anything.
UdpFailure(resolve, bind) ==
    IF resolve # "ok" THEN "resolution" ELSE IF ~bind THEN "bind" ELSE None

\* What an init routine comes to, given the transport result and the state
\* of the global logger slot: unwrap panics on a transport error; otherwise
\* set_logger(..)? either returns the Initialization error or lets the
\* routine go on to set_max_level and Ok(()).
InitResult(logger, reg) ==
    IF Unwrap(logger) = "panic" THEN "panic" ELSE set_logger(reg)

\* init_udp
InitUdp(resolve, bind, lvl) ==
    /\ Len(inits) < MaxInitCalls
    /\ LET logger == udp(resolve, bind)
           outcome == InitResult(logger, registered)
       IN  IF outcome = "Ok"
           THEN /\ registered' = Len(inits) + 1
                /\ formatter' = [facility |-> LOG_USER, hostname |-> Hostname]
                /\ backend' = UdpBackend(PeerAddr)
                /\ maxLevel' = lvl
                /\ inits' = Append(inits, [fn |-> "init_udp", failure |-> None,
                                           outcome |-> outcome])
           ELSE /\ inits' = Append(inits,
                      [fn |-> "init_udp",
                       failure |-> IF outcome = "panic"
                                   THEN UdpFailure(resolve, bind)
                                   ELSE "double registration",
                       outcome |-> outcome])
                /\ UNCHANGED <<registered, maxLevel, formatter, backend>>
    /\ UNCHANGED <<wire, loggerVars, facadeVars, staticMax, lastEnabled>>

\* init_tcp
InitTcp(connect, lvl) ==
    /\ Len(inits) < MaxInitCalls
    /\ LET logger == tcp(connect)
           outcome == InitResult(logger, registered)
       IN  IF outcome = "Ok"
           THEN /\ registered' = Len(inits) + 1
                /\ formatter' = [facility |-> LOG_USER, hostname |-> Hostname]
                /\ backend' = TcpBackend
                /\ maxLevel' = lvl
                /\ inits' = Append(inits, [fn |-> "init_tcp", failure |-> None,
                                           outcome |-> outcome])
           ELSE /\ inits' = Append(inits,
                      [fn |-> "init_tcp",
                       failure |-> IF outcome = "panic" THEN "connect"
                                   ELSE "double registration",
                       outcome |-> outcome])
                /\ UNCHANGED <<registered, maxLevel, formatter, backend>>
    /\ UNCHANGED <<wire, loggerVars, facadeVars, staticMax, lastEnabled>>

\* log.enabled(&metadata) on the adapter.
EnabledCall(lvl) ==
    /\ lastEnabled' = [level |-> lvl, max |-> maxLevel,
                       result |-> enabled(lvl, maxLevel, staticMax)]
    /\ UNCHANGED <<formatter, backend, wire, loggerVars, facadeVars,
                   registered, maxLevel, staticMax, inits>>

InitSetup ==
    /\ formatter = NoFormatter
    /\ backend = NoBackend
    /\ wire = <<>>
    /\ LoggerIdle
    /\ FacadeIdle
    /\ registered = 0
    /\ maxLevel = 0
    /\ staticMax \in LevelFilters
    /\ inits = <<>>
    /\ lastEnabled = NoEnabled

NextSetup ==
    \/ \E resolve \in {"fail", "empty", "ok"}, bind \in BOOLEAN, lvl \in LevelFilters :
          InitUdp(resolve, bind, lvl)
    \/ \E connect \in BOOLEAN, lvl \in LevelFilters : InitTcp(connect, lvl)
    \/ \E lvl \in Levels : EnabledCall(lvl)

SpecSetup == InitSetup /\ [][NextSetup]_vars

----
\* Properties of the setup routines.

\* C3 as stated: enabled(level) is false for every level below the
\* configured maximum and true otherwise (in a build with no static cap).
C3_Original ==
    (lastEnabled.level # None /\ staticMax = 5) =>
        (lastEnabled.result <=> ~(LevelOrd(lastEnabled.level) < lastEnabled.max))

\* C3 amended: enabled(level) is true exactly for the levels at or below both
\* the configured maximum and the build's static maximum (Error lowest, Trace
\* highest), and false for every level above either.
C3_EnabledUpToMax ==
    lastEnabled.level # None =>
        (lastEnabled.result <=>
            \E n \in 1..5 : /\ n = LevelOrd(lastEnabled.level)
                            /\ n <= lastEnabled.max
                            /\ n <= staticMax)

C3_Witness ==
    /\ registered # 0
    /\ staticMax = 5
    /\ lastEnabled.level = "Error"
    /\ lastEnabled.max = 3
    /\ lastEnabled.result

\* The part of C4 that does not depend on how a failure is reported: the
\* slot is set by the first call that gets as far as set_logger, and never
\* again.
RegisteredOnce ==
    /\ Cardinality({i \in 1..Len(inits) : inits[i].outcome = "Ok"}) <= 1
    /\ registered = 0 => \A i \in 1..Len(inits) : inits[i].outcome = "panic"
    /\ registered # 0 =>
          /\ inits[registered].outcome = "Ok"
          /\ \A i \in 1..Len(inits) : i < registered => inits[i].outcome = "panic"
          /\ backend.kind = (IF inits[registered].fn = "init_udp" THEN "Udp" ELSE "Tcp")

\* C4 as stated: registration succeeds at most once, the first successful
\* call's adapter stays the registered sink, and every later init call
\* returns an Initialization error.
C4_Original ==
    /\ RegisteredOnce
    /\ \A i, j \in 1..Len(inits) :
          (i < j /\ inits[i].outcome = "Ok") => inits[j].outcome = "Err(Initialization)"

\* C5 as stated: every initialization failure (resolution, bind, connect,
\* double registration) comes back from the routine as an Initialization error.
C5_Original ==
    \A i \in 1..Len(inits) :
        inits[i].failure # None => inits[i].outcome = "Err(Initialization)"

----
\* Properties of the facade adapter.

Holding == {"log_writing", "log_written", "flushing"}
Waiting == {"log_wait", "flush_wait"}

\* C1: whatever the interleaving of log and flush calls, at most one thread
\* is inside the Logger (writing, or flushing) at a time, and that thread is
\* the holder of the mutex: each call acquires, does its write or flush, and
\* releases.
C1_OneWriterAtATime ==
    /\ Cardinality({t \in Threads : pc[t] \in Holding}) <= 1
    /\ \A t \in Threads : pc[t] \in Holding <=> mutex.holder = t
    /\ \A t \in Threads : Len(call[t].ops) <= 1

C1_Witness ==
    \E t1, t2 \in Threads :
        /\ t1 # t2
        /\ pc[t1] = "log_writing"
        /\ pc[t2] \in Waiting
        /\ call[t2].op = "flush"

\* C2: a log call reaches exactly one Logger method, the one the level maps
\* to (Error->err, Warn->warning, Info->info, Debug->debug, Trace->debug);
\* emerg, alert, crit and notice are never reached, so with facility USER only
\* the priorities 11, 12, 14 and 15 are ever rendered.
C2_LevelMapping ==
    /\ \A t \in Threads :
          call[t].op = "log" =>
              LET want == CASE call[t].level = "Error" -> "err"
                            [] call[t].level = "Warn" -> "warning"
                            [] call[t].level = "Info" -> "info"
                            [] call[t].level = "Debug" -> "debug"
                            [] call[t].level = "Trace" -> "debug"
              IN  /\ call[t].ops \in {<<>>, <<want>>}
                  /\ (pc[t] = "log_written" \/ call[t].ret = "normal")
                        => call[t].ops = <<want>>
    /\ \A i \in 1..Len(Flatten(wire) \o backend.buf) :
          (Flatten(wire) \o backend.buf)[i].pri \in {11, 12, 14, 15}

C2_Witness ==
    \E t1, t2 \in Threads :
        /\ call[t1].level = "Trace" /\ call[t1].ops = <<"debug">>
        /\ call[t1].ret = "normal" /\ call[t1].res = "Ok"
        /\ call[t2].level = "Error" /\ call[t2].ops = <<"err">>
        /\ call[t2].ret = "normal" /\ call[t2].res = "Ok"

\* C6: a log or flush call that gets the (unpoisoned) lock makes exactly one
\* attempt on the transport; an I/O error of that attempt is dropped: the call
\* returns normally, has released the lock, has not retried, and has not
\* poisoned the mutex, so later calls still go through.
C6_ErrorsDiscarded ==
    /\ \A t \in Threads :
          /\ pc[t] = "log_written" => Len(call[t].ops) = 1
          /\ call[t].ret = "normal" =>
                /\ Len(call[t].ops) = 1
                /\ call[t].res \in {"Ok", "Err"}
                /\ call[t].op = "flush" => call[t].ops = <<"flush">>
                /\ call[t].op = "log" => call[t].ops[1] \in Methods
                /\ pc[t] = "idle"
                /\ mutex.holder # t
          /\ call[t].res = "Err" => call[t].ret # "panic"
    /\ mutex.poisoned =>
          \E t \in Threads : /\ pc[t] = "panicked"
                             /\ call[t].res = None
                             /\ Len(call[t].ops) = 1

C6_Witness ==
    \E t1, t2 \in Threads :
        /\ call[t1].op = "log" /\ call[t1].res = "Err" /\ call[t1].ret = "normal"
        /\ pc[t2] = "log_written" /\ call[t2].res = "Ok"
        /\ mutex = [holder |-> t2, poisoned |-> FALSE]

\* C7: once the mutex is poisoned (a holder panicked mid-write) it stays
\* poisoned, nothing more reaches the transport, no thread gets at the Logger
\* again, and every call that comes to the lock ends in a panic.
C7_PoisonIsFatal ==
    [][mutex.poisoned =>
          /\ mutex'.poisoned
          /\ backend' = backend
          /\ wire' = wire
          /\ \A t \in Threads :
                /\ pc'[t] \notin Holding
                /\ (pc[t] \in Waiting /\ pc'[t] # pc[t]) =>
                      (pc'[t] = "panicked" /\ call'[t].ret = "panic"
                         /\ call'[t].ops = <<>>)]_vars

C7_Witness ==
    /\ mutex.poisoned
    /\ \E t1, t2 \in Threads :
          /\ call[t1].op = "log" /\ call[t1].ret = "panic" /\ Len(call[t1].ops) = 1
          /\ call[t2].op = "flush" /\ call[t2].ret = "panic" /\ call[t2].ops = <<>>
          /\ pc[t1] = "panicked" /\ pc[t2] = "panicked"

----
\* Properties of the direct Logger use.

RECURSIVE OkRendered(_)
OkRendered(cs) ==
    IF cs = <<>> THEN <<>>
    ELSE (IF Head(cs).res = "Ok" THEN <<Head(cs).rendered>> ELSE <<>>)
         \o OkRendered(Tail(cs))

\* The end-to-end scenario: legacy formatter {USER, no hostname}, a Tcp
\* Logger, one successful err("hello world").
C8_Scenario ==
    /\ formatter = [facility |-> LOG_USER, hostname |-> None]
    /\ backend.kind = "Tcp"
    /\ Len(calls) = 1
    /\ calls[1].method = "err"
    /\ calls[1].msg = "hello world"
    /\ calls[1].res = "Ok"

C8_PeerHasMessage ==
    /\ Len(wire) = 1
    /\ Len(wire[1]) = 1
    /\ wire[1][1].pri = 11
    /\ wire[1][1].text = "hello world"

\* C8 as stated: after the one err("hello world") call on a Tcp Logger the
\* peer has received a single write beginning with <11> carrying the message.
C8_Original == C8_Scenario => C8_PeerHasMessage

\* C8 amended: after the call the message sits in the BufWriter and the peer
\* has received nothing; once a flush of the buffer has succeeded (explicit,
\* or the one done on drop) the peer has received exactly one write, which
\* begins with <11> and carries "hello world".
C8_BufferedUntilFlush ==
    C8_Scenario =>
        IF lastFlush = "Ok"
        THEN C8_PeerHasMessage /\ backend.buf = <<>>
        ELSE /\ wire = <<>>
             /\ ~dropped => /\ Len(backend.buf) = 1
                            /\ backend.buf[1].pri = 11
                            /\ backend.buf[1].text = "hello world"

C8_Witness == C8_Scenario /\ lastFlush = "Ok" /\ C8_PeerHasMessage

\* C9: on a Udp backend every flush returns Ok and does no I/O: the peer
\* receives nothing new and the socket and peer address stay as they were,
\* whatever writes (successful or failed) came before.
C9_UdpFlushNoIO ==
    [][\A ioOk \in BOOLEAN :
          (backend.kind = "Udp" /\ LoggerFlush(ioOk)) =>
              (lastFlush' = "Ok" /\ wire' = wire /\ backend' = backend)]_vars

C9_Witness ==
    /\ backend.kind = "Udp"
    /\ lastFlush = "Ok"
    /\ Len(calls) = 2
    /\ calls[1].res = "Err"
    /\ calls[2].res = "Ok"
    /\ Len(wire) = 1

\* C10: each of the eight Logger methods renders with its own fixed severity
\* s against the owned transport: the PRI is facility*8+s, within 0..191,
\* the message is the caller's, and the call returns Ok exactly when the
\* rendering was accepted by the transport.
C10_FixedSeverityPriority ==
    /\ \A i \in 1..Len(calls) :
          LET c == calls[i]
              s == CASE c.method = "emerg" -> 0
                     [] c.method = "alert" -> 1
                     [] c.method = "crit" -> 2
                     [] c.method = "err" -> 3
                     [] c.method = "warning" -> 4
                     [] c.method = "notice" -> 5
                     [] c.method = "info" -> 6
                     [] c.method = "debug" -> 7
          IN  /\ c.rendered.pri = formatter.facility * 8 + s
              /\ c.rendered.pri \in 0..191
              /\ c.rendered.text = c.msg
              /\ c.res \in {"Ok", "Err"}
    /\ ~dropped => Flatten(wire) \o backend.buf = OkRendered(calls)

C10_Witness ==
    /\ formatter.facility = 23
    /\ Len(calls) = 1
    /\ calls[1].method = "debug"
    /\ calls[1].rendered.pri = 191
    /\ calls[1].res = "Ok"
    /\ backend.kind = "Udp"
    /\ Len(wire) = 1

====
